---- MODULE Spec2Model ----
(***************************************************************************)
(* Model of the shipment API: the error envelope builder and the eight     *)
(* error templates of app/errors.py, and the shipment store with its       *)
(* handlers of app/main.py.                                                *)
(*                                                                         *)
(* Encodings.                                                              *)
(*  - An Optional[T] argument is a sequence of length 0 (None) or 1.       *)
(*  - A shipment id is a Python str of decimal digits; it is held as the   *)
(*    sequence of its digits so that Python's string order (max over the   *)
(*    keys) and int()/str() can be computed.  IdText renders it as text.   *)
(*  - A dict is a function; its key set is its DOMAIN.                     *)
(*  - The clock is the number of microseconds since 1970-01-01T00:00:00.   *)
(***************************************************************************)
EXTENDS Integers, Sequences, FiniteSets, TLC

VARIABLES
    shipments,   \* main.py: the module-level dict  id -> record
    now,         \* the UTC clock read by datetime.utcnow()
    call,        \* the last direct call of errors.py: [fn, args]
    error,       \* the dict that call returned
    response     \* the last HTTP response of a handler of main.py

vars == <<shipments, now, call, error, response>>

----------------------------------------------------------------------------
(* Bounds *)

MaxShipments == 5
MaxClock == 1
TickMicros == 500000

----------------------------------------------------------------------------
(* Optional values and Python truthiness *)

None == <<>>

Some(v) == <<v>>

Get(opt) == opt[1]

\* bool(s) of an Optional[str]
TruthyStr(opt) == opt # None /\ Get(opt) # ""

\* bool(d) of an Optional[dict]
TruthyDict(opt) == opt # None /\ DOMAIN Get(opt) # {}

\* bool(s) of an Optional[str] held as a digit sequence
TruthyId(opt) == opt # None /\ Len(Get(opt)) > 0

----------------------------------------------------------------------------
(* str(), int() and string order *)

DigitChar == <<"0", "1", "2", "3", "4", "5", "6", "7", "8", "9">>

\* the decimal digits of n >= 0, most significant first
RECURSIVE IntToDigits(_)
IntToDigits(n) ==
    IF n < 10 THEN <<n>> ELSE Append(IntToDigits(n \div 10), n % 10)

\* int(s) of a digit string
RECURSIVE DigitsToInt(_)
DigitsToInt(ds) ==
    IF Len(ds) = 0 THEN 0
    ELSE 10 * DigitsToInt(SubSeq(ds, 1, Len(ds) - 1)) + ds[Len(ds)]

\* the text of a digit string
RECURSIVE IdText(_)
IdText(ds) ==
    IF Len(ds) = 0 THEN "" ELSE DigitChar[Head(ds) + 1] \o IdText(Tail(ds))

\* str(n) of an int
IntToStr(n) ==
    IF n < 0 THEN "-" \o IdText(IntToDigits(0 - n)) ELSE IdText(IntToDigits(n))

\* a < b in Python's order on str (by code point, a proper prefix first)
RECURSIVE StrLess(_, _)
StrLess(a, b) ==
    IF Len(b) = 0 THEN FALSE
    ELSE IF Len(a) = 0 THEN TRUE
    ELSE IF Head(a) # Head(b) THEN Head(a) < Head(b)
    ELSE StrLess(Tail(a), Tail(b))

\* max(keys) over str keys
MaxKey(keys) == CHOOSE k \in keys : \A j \in keys : ~StrLess(k, j)

----------------------------------------------------------------------------
(* datetime.utcnow().isoformat() *)

Pad2(n) == IF n < 10 THEN "0" \o IntToStr(n) ELSE IntToStr(n)

Pad6(n) ==
    IF n < 10 THEN "00000" \o IntToStr(n)
    ELSE IF n < 100 THEN "0000" \o IntToStr(n)
    ELSE IF n < 1000 THEN "000" \o IntToStr(n)
    ELSE IF n < 10000 THEN "00" \o IntToStr(n)
    ELSE IF n < 100000 THEN "0" \o IntToStr(n)
    ELSE IntToStr(n)

\* isoformat() of the datetime t microseconds after the epoch (t below one
\* minute): the fraction is printed only when the microsecond is not zero
IsoFormat(t) ==
    "1970-01-01T00:00:" \o Pad2(t \div 1000000)
        \o (IF t % 1000000 = 0 THEN "" ELSE "." \o Pad6(t % 1000000))

----------------------------------------------------------------------------
(* errors.py: the envelope builder *)

\* d[k] = v on a dict
With(d, k, v) == [x \in DOMAIN d \cup {k} |-> IF x = k THEN v ELSE d[x]]

\* the dict literal of create_error_response; the timestamp is the clock read
\* at the call
BaseError(status, title, detail, error_type, instance) ==
    [type |-> error_type,
     title |-> title,
     status |-> status,
     detail |-> detail,
     instance |-> instance,
     timestamp |-> IsoFormat(now) \o "Z"]

\* a builder that writes the detail text under "title"
create_error_response_title(status, title, detail, error_type, instance, request_id, validation_errors) ==
    LET base == BaseError(status, detail, detail, error_type, instance)
        withId == IF TruthyStr(request_id)
                  THEN With(base, "request_id", Get(request_id)) ELSE base
    IN  IF TruthyDict(validation_errors)
        THEN With(withId, "errors", Get(validation_errors)) ELSE withId

\* a builder that records the time of the call under "instance" as well
create_error_response_clock(status, title, detail, error_type, instance, request_id, validation_errors) ==
    LET base == BaseError(status, title, detail, error_type,
                          instance \o "#" \o IsoFormat(now))
        withId == IF TruthyStr(request_id)
                  THEN With(base, "request_id", Get(request_id)) ELSE base
    IN  IF TruthyDict(validation_errors)
        THEN With(withId, "errors", Get(validation_errors)) ELSE withId

create_error_response(status, title, detail, error_type, instance, request_id, validation_errors) ==
    LET base == BaseError(status, title, detail, error_type, instance)
        withId == IF TruthyStr(request_id)
                  THEN With(base, "request_id", Get(request_id)) ELSE base
    IN  IF TruthyDict(validation_errors)
        THEN With(withId, "errors", Get(validation_errors)) ELSE withId

----------------------------------------------------------------------------
(* errors.py: ErrorTemplates *)

not_found(resource, resource_id, instance) ==
    create_error_response(
        404,
        "Resource Not Found",
        resource \o " with ID '" \o resource_id \o "' was not found.",
        "https://api.example.com/errors/not-found",
        instance, None, None)

validation_error(errors, instance) ==
    create_error_response(
        422,
        "Validation Error",
        "One or more fields failed validation.",
        "https://api.example.com/errors/validation",
        instance, None, Some(errors))

UnauthorizedDetail == "Authentication required."

\* an unauthorized that answers with the status of forbidden
unauthorized_403(detail, instance) ==
    create_error_response(
        403,
        "Unauthorized",
        detail,
        "https://api.example.com/errors/unauthorized",
        instance, None, None)

unauthorized(detail, instance) ==
    create_error_response(
        401,
        "Unauthorized",
        detail,
        "https://api.example.com/errors/unauthorized",
        instance, None, None)

ForbiddenDetail == "You don't have permission to access this resource."

forbidden(detail, instance) ==
    create_error_response(
        403,
        "Forbidden",
        detail,
        "https://api.example.com/errors/forbidden",
        instance, None, None)

InternalErrorDetail == "An unexpected error occurred."

internal_error(detail, instance, request_id) ==
    create_error_response(
        500,
        "Internal Server Error",
        detail,
        "https://api.example.com/errors/internal",
        instance, request_id, None)

bad_request(detail, instance) ==
    create_error_response(
        400,
        "Bad Request",
        detail,
        "https://api.example.com/errors/bad-request",
        instance, None, None)

\* a conflict that reuses the type URI of bad_request
conflict_type(resource, detail, instance) ==
    create_error_response(
        409,
        "Conflict",
        resource \o " conflict: " \o detail,
        "https://api.example.com/errors/bad-request",
        instance, None, None)

conflict(resource, detail, instance) ==
    create_error_response(
        409,
        "Conflict",
        resource \o " conflict: " \o detail,
        "https://api.example.com/errors/conflict",
        instance, None, None)

\* a rate_limit_exceeded that returns the base payload
rate_limit_exceeded_base(retry_after, instance) ==
    create_error_response(
        429,
        "Rate Limit Exceeded",
        "Too many requests. Please retry after " \o IntToStr(retry_after)
            \o " seconds.",
        "https://api.example.com/errors/rate-limit",
        instance, None, None)

rate_limit_exceeded(retry_after, instance) ==
    LET base == create_error_response(
                    429,
                    "Rate Limit Exceeded",
                    "Too many requests. Please retry after "
                        \o IntToStr(retry_after) \o " seconds.",
                    "https://api.example.com/errors/rate-limit",
                    instance, None, None)
    IN  With(base, "retry_after", retry_after)

----------------------------------------------------------------------------
(* main.py: the shipment store and its handlers *)

SeedIds == {<<1, 2, 3, 4, 2, 3>>, <<1, 2, 3, 4, 2, 4>>, <<1, 2, 3, 4, 2, 5>>}

\* the module-level dict literal
SeedShipments ==
    [i \in SeedIds |->
        [id |-> i, weight |-> "20kg", content |-> "Wooden Table",
         status |-> "In Transit"]]

\* str(request.url)
ShipmentUrl == "http://testserver/shipment/"

UrlOf(id) ==
    IF id = None THEN ShipmentUrl ELSE ShipmentUrl \o "?id=" \o IdText(Get(id))

\* what the client receives: a dict returned by the handler (200), a
\* JSONResponse built by the handler, or the framework's answer to an
\* exception that left the handler
Returned(handler, content) ==
    [handler |-> handler, returns |-> "dict", status_code |-> 200,
     content |-> content]

JSONResponse(handler, status_code, content) ==
    [handler |-> handler, returns |-> "JSONResponse",
     status_code |-> status_code, content |-> content]

KeyError(key) == [exception |-> "KeyError", key |-> key]

Raised(handler, exception) ==
    [handler |-> handler, returns |-> "exception", status_code |-> 500,
     content |-> exception]

get_latest_shipment ==
    LET id == MaxKey(DOMAIN shipments)
    IN  /\ response' = Returned("get_latest_shipment", shipments[id])
        /\ UNCHANGED <<shipments, now, call, error>>

\* a get_shipment that answers an unknown id with the transport status 400
get_shipment_400(id) ==
    LET key == IF TruthyId(id) THEN Get(id) ELSE MaxKey(DOMAIN shipments)
    IN  /\ response' =
              IF key \notin DOMAIN shipments
              THEN JSONResponse("get_shipment", 400,
                                not_found("Shipment", IdText(key), UrlOf(id)))
              ELSE Returned("get_shipment", shipments[key])
        /\ UNCHANGED <<shipments, now, call, error>>

get_shipment(id) ==
    LET key == IF TruthyId(id) THEN Get(id) ELSE MaxKey(DOMAIN shipments)
    IN  /\ response' =
              IF key \notin DOMAIN shipments
              THEN JSONResponse("get_shipment", 404,
                                not_found("Shipment", IdText(key), UrlOf(id)))
              ELSE Returned("get_shipment", shipments[key])
        /\ UNCHANGED <<shipments, now, call, error>>

NewShipment(new_id, data) ==
    [id |-> new_id,
     content |-> data.content,
     weight |-> IntToStr(data.weight) \o "kg",
     status |-> "In Transit"]

\* the store holds at most MaxShipments records: a request that would add one
\* more is not taken
Room(new_id) ==
    new_id \in DOMAIN shipments \/ Cardinality(DOMAIN shipments) < MaxShipments

\* a create_shipment that stores the record before it checks the weight
create_shipment_store_first(data) ==
    LET new_id == IntToDigits(DigitsToInt(MaxKey(DOMAIN shipments)) + 1)
    IN  /\ Room(new_id)
        /\ IF "weight" \notin DOMAIN data
           THEN /\ response' = Raised("create_shipment", KeyError("weight"))
                /\ UNCHANGED shipments
           ELSE IF "content" \notin DOMAIN data
           THEN /\ response' = Raised("create_shipment", KeyError("content"))
                /\ UNCHANGED shipments
           ELSE /\ shipments' = With(shipments, new_id, NewShipment(new_id, data))
                /\ response' =
                      IF data.weight < 0 \/ data.weight > 100
                      THEN JSONResponse("create_shipment", 400,
                               bad_request("Weight must be between 0 and 100",
                                           ShipmentUrl))
                      ELSE Returned("create_shipment",
                                    NewShipment(new_id, data))
        /\ UNCHANGED <<now, call, error>>

create_shipment(data) ==
    LET new_id == IntToDigits(DigitsToInt(MaxKey(DOMAIN shipments)) + 1)
    IN  /\ IF "weight" \notin DOMAIN data
           THEN /\ response' = Raised("create_shipment", KeyError("weight"))
                /\ UNCHANGED shipments
           ELSE IF data.weight < 0 \/ data.weight > 100
           THEN /\ response' =
                      JSONResponse("create_shipment", 400,
                          bad_request("Weight must be between 0 and 100",
                                      ShipmentUrl))
                /\ UNCHANGED shipments
           ELSE IF "content" \notin DOMAIN data
           THEN /\ response' = Raised("create_shipment", KeyError("content"))
                /\ UNCHANGED shipments
           ELSE /\ Room(new_id)
                /\ shipments' = With(shipments, new_id, NewShipment(new_id, data))
                /\ response' = Returned("create_shipment", shipments'[new_id])
        /\ UNCHANGED <<now, call, error>>

----------------------------------------------------------------------------
(* The requests and calls the environment makes *)

Weights == {-1, 0, 100, 101}

Contents == {"Wooden Table"}

\* the JSON bodies posted: complete ones, and one without each key
Bodies ==
    [weight : Weights, content : Contents]
        \cup {[weight |-> 0], [content |-> "Wooden Table"]}

\* a seed id, the id the first accepted request creates, an id never stored
AskedIds == {<<1, 2, 3, 4, 2, 3>>, <<1, 2, 3, 4, 2, 6>>, <<9, 9>>}

\* the id query parameter: absent, empty, or given
QueryIds == {None, Some(<<>>)} \cup {Some(k) : k \in AskedIds}

Statuses == {-1, 418}

Titles == {"", "I'm a teapot"}

ErrorTypes == {"", "about:blank"}

Details == {"short and stout"}

Instances == {"/shipment/"}

RequestIds == {None, Some(""), Some("req-1")}

FieldErrors == {<<>>, [weight |-> <<"must be positive">>]}

ValidationErrors == {None} \cup {Some(e) : e \in FieldErrors}

RetryAfters == {-1, 0, 30}

\* a direct call of errors.py: remember the call and what it returned
Calls(fn, args, result) ==
    /\ call' = [fn |-> fn, args |-> args]
    /\ error' = result
    /\ UNCHANGED <<shipments, now, response>>

\* the builder called with its required arguments and a type
CreateErrorResponse ==
    \E status \in Statuses, title \in Titles, detail \in Details,
       error_type \in ErrorTypes :
        Calls("create_error_response",
              [status |-> status, title |-> title, detail |-> detail,
               error_type |-> error_type, instance |-> "",
               request_id |-> None, validation_errors |-> None],
              create_error_response(status, title, detail, error_type, "",
                                    None, None))

\* the builder called with its optional arguments
CreateErrorResponseOptional ==
    \E detail \in Details, instance \in Instances,
       request_id \in RequestIds, validation_errors \in ValidationErrors :
        Calls("create_error_response",
              [status |-> 418, title |-> "I'm a teapot", detail |-> detail,
               error_type |-> "about:blank", instance |-> instance,
               request_id |-> request_id,
               validation_errors |-> validation_errors],
              create_error_response(418, "I'm a teapot", detail,
                                    "about:blank", instance, request_id,
                                    validation_errors))

NotFound ==
    \E resource_id \in {"999", ""}, instance \in {""} :
        Calls("not_found",
              [resource |-> "Shipment", resource_id |-> resource_id,
               instance |-> instance],
              not_found("Shipment", resource_id, instance))

ValidationError ==
    \E errors \in FieldErrors, instance \in {""} :
        Calls("validation_error",
              [errors |-> errors, instance |-> instance],
              validation_error(errors, instance))

Unauthorized ==
    \E detail \in Details \cup {UnauthorizedDetail} :
        Calls("unauthorized", [detail |-> detail, instance |-> ""],
              unauthorized(detail, ""))

Forbidden ==
    \E detail \in Details \cup {ForbiddenDetail} :
        Calls("forbidden", [detail |-> detail, instance |-> ""],
              forbidden(detail, ""))

InternalError ==
    \E detail \in {InternalErrorDetail},
       request_id \in RequestIds :
        Calls("internal_error",
              [detail |-> detail, instance |-> "", request_id |-> request_id],
              internal_error(detail, "", request_id))

BadRequest ==
    \E detail \in Details \cup {""} :
        Calls("bad_request", [detail |-> detail, instance |-> ""],
              bad_request(detail, ""))

Conflict ==
    \E detail \in Details \cup {"already shipped"} :
        Calls("conflict",
              [resource |-> "Shipment", detail |-> detail, instance |-> ""],
              conflict("Shipment", detail, ""))

RateLimitExceeded ==
    \E retry_after \in RetryAfters :
        Calls("rate_limit_exceeded",
              [retry_after |-> retry_after, instance |-> ""],
              rate_limit_exceeded(retry_after, ""))

GetLatestShipment == get_latest_shipment

GetShipment == \E id \in QueryIds : get_shipment(id)

CreateShipment == \E data \in Bodies : create_shipment(data)

\* time passes
Tick ==
    /\ now < MaxClock * TickMicros
    /\ now' = now + TickMicros
    /\ UNCHANGED <<shipments, call, error, response>>

NoCall == [fn |-> "none", args |-> <<>>]

NoResponse ==
    [handler |-> "none", returns |-> "none", status_code |-> 0,
     content |-> [k \in {} |-> ""]]

Init ==
    /\ shipments = SeedShipments
    /\ now = 0
    /\ call = NoCall
    /\ error = [k \in {} |-> ""]
    /\ response = NoResponse

Next ==
    \/ CreateErrorResponse
    \/ CreateErrorResponseOptional
    \/ NotFound
    \/ ValidationError
    \/ Unauthorized
    \/ Forbidden
    \/ InternalError
    \/ BadRequest
    \/ Conflict
    \/ RateLimitExceeded
    \/ GetLatestShipment
    \/ GetShipment
    \/ CreateShipment
    \/ Tick

Spec == Init /\ [][Next]_vars

\* The store after 876574 accepted requests holds the ids "123423" to
\* "999999".  The records "123426" to "999998" are left out here: each is
\* below "999999" in string order and no request writes to it, so max() over
\* the keys and every write are those of the full store.
RolloverShipments ==
    With(SeedShipments, <<9, 9, 9, 9, 9, 9>>,
         NewShipment(<<9, 9, 9, 9, 9, 9>>,
                     [weight |-> 0, content |-> "Wooden Table"]))

InitRollover ==
    /\ shipments = RolloverShipments
    /\ now = 0
    /\ call = NoCall
    /\ error = [k \in {} |-> ""]
    /\ response = NoResponse

SpecRollover == InitRollover /\ [][Next]_vars

----------------------------------------------------------------------------
(* Properties *)

Templates ==
    {"not_found", "validation_error", "unauthorized", "forbidden",
     "internal_error", "bad_request", "conflict", "rate_limit_exceeded"}

BaseKeys == {"type", "title", "status", "detail", "instance", "timestamp"}

Called == call.fn # "none"

\* the last response carries an error payload built by a handler
ErrorReturned == response.returns = "JSONResponse"

\* a payload without its timestamp
StripTimestamp(p) == [k \in DOMAIN p \ {"timestamp"} |-> p[k]]

HeaderPresent(p) == {"status", "title", "type"} \subseteq DOMAIN p

HeaderNonEmpty(p) == HeaderPresent(p) /\ p.title # "" /\ p.type # ""

\* C1: the payload of create_error_response has the six base keys, the key
\* request_id exactly when a request_id other than None was passed (and then
\* with that value), the key errors exactly when validation_errors other than
\* None was passed (and then with that value), and no other key.
C1_ExactKeys ==
    call.fn = "create_error_response" =>
        /\ DOMAIN error =
              BaseKeys
                \cup (IF call.args.request_id # None
                      THEN {"request_id"} ELSE {})
                \cup (IF call.args.validation_errors # None
                      THEN {"errors"} ELSE {})
        /\ call.args.request_id # None =>
              error.request_id = Get(call.args.request_id)
        /\ call.args.validation_errors # None =>
              error.errors = Get(call.args.validation_errors)

\* status, title and type of each template, as the catalog lists them
TemplateConstants ==
    [not_found |->
        [status |-> 404, title |-> "Resource Not Found",
         type |-> "https://api.example.com/errors/not-found"],
     validation_error |->
        [status |-> 422, title |-> "Validation Error",
         type |-> "https://api.example.com/errors/validation"],
     unauthorized |->
        [status |-> 401, title |-> "Unauthorized",
         type |-> "https://api.example.com/errors/unauthorized"],
     forbidden |->
        [status |-> 403, title |-> "Forbidden",
         type |-> "https://api.example.com/errors/forbidden"],
     internal_error |->
        [status |-> 500, title |-> "Internal Server Error",
         type |-> "https://api.example.com/errors/internal"],
     bad_request |->
        [status |-> 400, title |-> "Bad Request",
         type |-> "https://api.example.com/errors/bad-request"],
     conflict |->
        [status |-> 409, title |-> "Conflict",
         type |-> "https://api.example.com/errors/conflict"],
     rate_limit_exceeded |->
        [status |-> 429, title |-> "Rate Limit Exceeded",
         type |-> "https://api.example.com/errors/rate-limit"]]

HasConstants(p, t) ==
    /\ HeaderPresent(p)
    /\ p.status = TemplateConstants[t].status
    /\ p.title = TemplateConstants[t].title
    /\ p.type = TemplateConstants[t].type

\* C2: whatever the arguments, the payload of each of the eight templates
\* carries that template's fixed status, title and type.
C2_TemplateConstants ==
    /\ call.fn \in Templates => HasConstants(error, call.fn)
    /\ ErrorReturned /\ response.handler = "get_shipment" =>
          HasConstants(response.content, "not_found")
    /\ ErrorReturned /\ response.handler = "create_shipment" =>
          HasConstants(response.content, "bad_request")

C2_Witness ==
    /\ call.fn = "conflict"
    /\ call.args.detail = "already shipped"
    /\ error.status = 409
    /\ error.detail = "Shipment conflict: already shipped"

\* C3: for every errors mapping, the empty one included, validation_error
\* returns a payload of status 422 whose key errors holds the mapping
\* verbatim; no other template's payload has the key errors.
C3_ErrorsVerbatim ==
    /\ call.fn = "validation_error" =>
          /\ error.status = 422
          /\ "errors" \in DOMAIN error
          /\ error.errors = call.args.errors
    /\ call.fn \in Templates \ {"validation_error"} =>
          "errors" \notin DOMAIN error

\* C4 as stated: in every payload of the builder or of a template, status,
\* title and type are present and non-empty.
C4_HeaderNonEmpty ==
    /\ Called => HeaderNonEmpty(error)
    /\ ErrorReturned => HeaderNonEmpty(response.content)

\* C4: in every payload of a template, status, title and type are present and
\* non-empty; in every payload of the builder they are present and equal the
\* arguments status, title and error_type.
C4_HeaderPresent ==
    /\ call.fn \in Templates => HeaderNonEmpty(error)
    /\ ErrorReturned => HeaderNonEmpty(response.content)
    /\ call.fn = "create_error_response" =>
          /\ HeaderPresent(error)
          /\ error.status = call.args.status
          /\ error.title = call.args.title
          /\ error.type = call.args.error_type

C4_Witness ==
    /\ call.fn = "create_error_response"
    /\ call.args.title = ""
    /\ call.args.error_type = ""
    /\ error.title = ""
    /\ error.type = ""

\* C5: for every integer retry_after, rate_limit_exceeded returns status 429,
\* title 'Rate Limit Exceeded', the detail 'Too many requests. Please retry
\* after {retry_after} seconds.' and the field retry_after equal to the
\* argument; no other payload has the key retry_after.
C5_RetryAfter ==
    /\ call.fn = "rate_limit_exceeded" =>
          /\ error.status = 429
          /\ error.title = "Rate Limit Exceeded"
          /\ error.detail =
                "Too many requests. Please retry after "
                    \o IntToStr(call.args.retry_after) \o " seconds."
          /\ call.args.retry_after = 30 =>
                error.detail =
                    "Too many requests. Please retry after 30 seconds."
          /\ call.args.retry_after = -1 =>
                error.detail =
                    "Too many requests. Please retry after -1 seconds."
          /\ "retry_after" \in DOMAIN error
          /\ error.retry_after = call.args.retry_after
    /\ Called /\ call.fn # "rate_limit_exceeded" =>
          "retry_after" \notin DOMAIN error
    /\ ErrorReturned => "retry_after" \notin DOMAIN response.content

C5_Witness ==
    /\ call.fn = "rate_limit_exceeded"
    /\ call.args.retry_after = -1
    /\ error.retry_after = -1

\* C6: when a call is followed by the same call with the same arguments,
\* whatever time has passed and whatever requests the store has served in
\* between, the two payloads have the same keys and the same values except
\* for timestamp.
C6_SameButTimestamp ==
    [][Called /\ call' = call =>
          StripTimestamp(error') = StripTimestamp(error)]_vars

\* a call answered after time has passed and the store has grown
C6_Witness ==
    /\ Called
    /\ error.timestamp # "1970-01-01T00:00:00Z"
    /\ DOMAIN shipments # SeedIds

\* C7: whenever a handler returns an error payload, the transport status
\* code equals the payload's status: 404 with not_found from get_shipment,
\* 400 with bad_request from create_shipment.
C7_StatusMatches ==
    ErrorReturned =>
        /\ response.status_code = response.content.status
        /\ response.handler = "get_shipment" =>
              /\ response.status_code = 404
              /\ response.content.title = "Resource Not Found"
        /\ response.handler = "create_shipment" =>
              /\ response.status_code = 400
              /\ response.content.title = "Bad Request"

C7_Witness ==
    /\ ErrorReturned
    /\ response.handler = "get_shipment"
    /\ response.status_code = 404
    /\ response.content.detail = "Shipment with ID '99' was not found."

\* the template a handler builds its error payload with
HandlerTemplate ==
    IF response.handler = "get_shipment" THEN "not_found" ELSE "bad_request"

\* C8: the payloads of two different templates never have the same type:
\* neither a template's payload and the next payload of another template,
\* nor a template's payload and the payload a handler built with another
\* template.
C8_TypesDistinct ==
    /\ [](call.fn \in Templates /\ ErrorReturned /\ call.fn # HandlerTemplate
            => error.type # response.content.type)
    /\ [][call.fn \in Templates /\ call'.fn \in Templates
            /\ call'.fn # call.fn
            => error'.type # error.type]_vars

\* a conflict payload next to the bad_request payload of create_shipment
C8_Witness ==
    /\ call.fn = "conflict"
    /\ error.type = "https://api.example.com/errors/conflict"
    /\ ErrorReturned
    /\ response.handler = "create_shipment"
    /\ response.content.type = "https://api.example.com/errors/bad-request"

Accepted(data) ==
    /\ {"weight", "content"} \subseteq DOMAIN data
    /\ data.weight >= 0
    /\ data.weight <= 100

\* C9: every accepted create_shipment stores its record under an id that was
\* not a key of the store: the store grows by one record and every record it
\* held is still there, unchanged.
C9_FreshId ==
    [][(/\ UNCHANGED <<now, call, error>>
        /\ response'.handler = "create_shipment"
        /\ \E data \in Bodies : Accepted(data) /\ create_shipment(data)) =>
          /\ response'.content.id \notin DOMAIN shipments
          /\ Cardinality(DOMAIN shipments') =
                Cardinality(DOMAIN shipments) + 1
          /\ \A k \in DOMAIN shipments :
                k \in DOMAIN shipments' /\ shipments'[k] = shipments[k]]_vars

\* C10: a request answered with an error, and every get_shipment and
\* get_latest_shipment, leaves the store as it was.
C10_StoreUnchanged ==
    [][shipments' # shipments =>
          ~(\/ \E id \in QueryIds : get_shipment(id)
            \/ get_latest_shipment
            \/ /\ response'.status_code >= 400
               /\ \E data \in Bodies : create_shipment(data))]_vars

\* a rejected request after an accepted one
C10_Witness ==
    /\ response.handler = "create_shipment"
    /\ response.status_code = 400
    /\ DOMAIN shipments # SeedIds

====
